---- MODULE Spec2Model ----
(***************************************************************************)
(* nanoemoji.py: the driver that turns a list of SVG files into a ninja    *)
(* build description (build.ninja) and runs ninja on it.                   *)
(*                                                                         *)
(* Paths are modelled as the text they are: a flag saying whether the text *)
(* starts with "/", and the components between the separators.  Each       *)
(* component is the pair os.path.splitext makes of it, <<stem, ext>>, so   *)
(* that "x.svg" is <<"x", ".svg">> and "picosvg" is <<"picosvg", "">>.     *)
(* The relative path "" has no component; "." is the one component ".".    *)
(* Filesystem calls are taken to succeed (no OSError is modelled).         *)
(***************************************************************************)
EXTENDS Integers, Sequences, FiniteSets, TLC

\* At most this many SVG files are given on the command line.
MaxFiles == 2
\* The executor's exit status is drawn from 0..MaxStatus.
MaxStatus == 2

-----------------------------------------------------------------------------
(* Path text *)

Name(stem, ext) == <<stem, ext>>
Dir(stem) == <<stem, "">>
Empty == <<"", "">>
Dot == <<".", "">>
DotDot == <<"..", "">>

AbsP(comps) == [abs |-> TRUE, comps |-> comps]
RelP(comps) == [abs |-> FALSE, comps |-> comps]

\* os.sep made absolute: "/"
FILESYSTEM_ROOT_PATH == AbsP(<<>>)

VARIABLES
    argv,         \* argv[1:], the SVG paths as typed
    FLAGS,        \* the absl flags of the run
    cwd,          \* the working directory of the process
    pc,           \* the position of _run
    svg_files,    \* _run's local svg_files
    dirs,         \* the directories that exist
    ninja_file,   \* build.ninja: whether it exists, where, and its statements
    log,          \* what the run did so far, in order
    ninja_calls,  \* how often this run started ninja
    ninja_rc,     \* the exit status ninja returned to this run (-1: none)
    exit,         \* how the process ended
    run,          \* 1 for the first invocation, 2 for the repeated one
    prev_file     \* build.ninja as the previous invocation left it

vars == <<argv, FLAGS, cwd, pc, svg_files, dirs, ninja_file, log,
          ninja_calls, ninja_rc, exit, run, prev_file>>

\* posixpath.isabs
isabs(p) == p.abs

\* posixpath.join(a, b)
join(a, b) == IF isabs(b) THEN b ELSE [abs |-> a.abs, comps |-> a.comps \o b.comps]

\* the component loop of posixpath.normpath
RECURSIVE NormComps(_, _, _)
NormComps(comps, abs, acc) ==
    IF comps = <<>> THEN acc
    ELSE LET c == Head(comps)
             rest == Tail(comps)
         IN  IF c = Empty \/ c = Dot
             THEN NormComps(rest, abs, acc)
             ELSE IF \/ c # DotDot
                     \/ (~abs /\ acc = <<>>)
                     \/ (acc # <<>> /\ acc[Len(acc)] = DotDot)
             THEN NormComps(rest, abs, Append(acc, c))
             ELSE IF acc # <<>>
             THEN NormComps(rest, abs, SubSeq(acc, 1, Len(acc) - 1))
             ELSE NormComps(rest, abs, acc)

\* posixpath.normpath: "path or dot"
normpath(p) ==
    LET c == NormComps(p.comps, p.abs, <<>>)
    IN  IF ~p.abs /\ c = <<>> THEN RelP(<<Dot>>) ELSE [abs |-> p.abs, comps |-> c]

\* os.path.abspath, in the process's working directory
abspath(p) == normpath(IF isabs(p) THEN p ELSE join(cwd, p))

\* posixpath.basename: the text after the last separator
basename(p) == IF p.comps = <<>> THEN Empty ELSE p.comps[Len(p.comps)]

\* posixpath.dirname
dirname(p) ==
    IF p.comps = <<>> THEN p
    ELSE [abs |-> p.abs, comps |-> SubSeq(p.comps, 1, Len(p.comps) - 1)]

\* os.path.splitext(name)[0]
splitext_root(name) == name[1]

\* the components a path is split into, without "" and "."
SplitComps(p) == SelectSeq(p.comps, LAMBDA c : c # Empty /\ c # Dot)

\* length of the longest common prefix of two component lists
RECURSIVE CommonLen(_, _)
CommonLen(s, t) ==
    IF s = <<>> \/ t = <<>> \/ Head(s) # Head(t) THEN 0
    ELSE 1 + CommonLen(Tail(s), Tail(t))

\* posixpath.commonpath([p, q]) of two absolute paths
commonpath(p, q) ==
    LET s == SplitComps(p)
        t == SplitComps(q)
    IN  [abs |-> p.abs, comps |-> SubSeq(s, 1, CommonLen(s, t))]

\* posixpath.relpath(path, start)
relpath(path, start) ==
    LET start_list == SplitComps(abspath(start))
        path_list == SplitComps(abspath(path))
        i == CommonLen(start_list, path_list)
        rel_list == [k \in 1..(Len(start_list) - i) |-> DotDot]
                        \o SubSeq(path_list, i + 1, Len(path_list))
    IN  IF rel_list = <<>> THEN RelP(<<Dot>>) ELSE RelP(rel_list)

-----------------------------------------------------------------------------
(* build_dir, rel_build, resolve_rel_build *)

build_dir == abspath(FLAGS.build_dir)

rel_build_always_relative(path) == relpath(abspath(path), build_dir)

rel_build_strip_prefix(path) ==
    LET p == abspath(path)
        build_path == build_dir
        prefix == commonpath(p, build_path)
    IN  IF prefix = FILESYSTEM_ROOT_PATH THEN p
        ELSE RelP(SubSeq(p.comps, Len(build_path.comps) + 1, Len(p.comps)))

rel_build(path) ==
    LET p == abspath(path)
        build_path == build_dir
        prefix == commonpath(p, build_path)
    IN  IF prefix = FILESYSTEM_ROOT_PATH THEN p ELSE relpath(p, build_path)

resolve_rel_build(path) == abspath(join(build_dir, path))

-----------------------------------------------------------------------------
(* ninja_syntax.Writer: the build description is the list of statements    *)
(* written so far.                                                         *)

Comment(text) ==
    [kind |-> "comment", name |-> text, cmd |-> <<>>, rsp |-> FALSE,
     outs |-> <<>>, ins |-> <<>>]
Newline ==
    [kind |-> "newline", name |-> "", cmd |-> <<>>, rsp |-> FALSE,
     outs |-> <<>>, ins |-> <<>>]
\* nw.rule(name, command, rspfile="$out.rsp", rspfile_content="$in")
Rule(name, command, rsp) ==
    [kind |-> "rule", name |-> name, cmd |-> command, rsp |-> rsp,
     outs |-> <<>>, ins |-> <<>>]
\* nw.build(outputs, rule, inputs)
Build(outs, rule, ins) ==
    [kind |-> "build", name |-> rule, cmd |-> <<>>, rsp |-> FALSE,
     outs |-> outs, ins |-> ins]

\* module_rule inside write_preamble
module_rule(mod_name, arg_pattern, rsp) ==
    Rule(mod_name, <<"sys.executable", " -m nanoemoji.", mod_name, " ">> \o arg_pattern, rsp)

diff_rules ==
    LET res == ToString(FLAGS.svg_font_diff_resolution)
    IN  << Rule("write_svg2png", <<"resvg -h ", res, "  -w ", res, " $in $out">>, FALSE),
           module_rule("write_font2png",
                       <<"--height ", res, "  --width ", res, " --output_file $out $in">>,
                       FALSE),
           module_rule("write_pngdiff", <<"--output_file $out $in">>, FALSE),
           module_rule("write_diffreport",
                       <<"--lhs_dir resvg_png --rhs_dir skia_png --output_file $out @$out.rsp">>,
                       TRUE) >>

preamble_diff_rules_always == diff_rules

preamble_diff_rules == IF FLAGS.gen_svg_font_diffs THEN diff_rules ELSE <<>>

write_preamble(nw) ==
    LET keep_glyph_names ==
            <<" --">> \o (IF ~FLAGS.keep_glyph_names THEN <<"no">> ELSE <<>>)
                      \o <<"keep_glyph_names">>
    IN  nw \o << Comment("Generated by nanoemoji"),
                 Newline,
                 Rule("picosvg", <<"picosvg $in > $out">>, FALSE),
                 module_rule("write_codepoints", <<"@$out.rsp > $out">>, TRUE),
                 module_rule("write_fea", <<"$in > $out">>, FALSE),
                 module_rule("write_font",
                             <<" --upem ", FLAGS.upem,
                               " --family \"", FLAGS.family, "\"",
                               " --color_format ", FLAGS.color_format,
                               " --output ", FLAGS.output>>
                             \o keep_glyph_names
                             \o <<" --output_file $out", " @$out.rsp">>,
                             TRUE) >>
           \o preamble_diff_rules
           \o << Newline >>

-----------------------------------------------------------------------------
(* destinations *)

picosvg_dest(input_svg) == RelP(<<Dir("picosvg"), basename(input_svg)>>)

png_name(input_svg) == Name(splitext_root(basename(input_svg)), ".png")

resvg_png_dest(input_svg) == RelP(<<Dir("resvg_png"), png_name(input_svg)>>)

\* write_font.output_file(family, output, color_format)
output_file(family, output, color_format) == RelP(<<Name(family, ".ttf")>>)

font_dest ==
    IF FLAGS.output_file # <<>>
    THEN abspath(FLAGS.output_file[1])
    ELSE output_file(FLAGS.family, FLAGS.output, FLAGS.color_format)

skia_png_dest(input_svg) == RelP(<<Dir("skia_png"), png_name(input_svg)>>)

diff_png_dest(input_svg) == RelP(<<Dir("diff_png"), png_name(input_svg)>>)

codepointmap_csv == RelP(<<Name("codepointmap", ".csv")>>)
features_fea == RelP(<<Name("features", ".fea")>>)
diffs_html == RelP(<<Name("diffs", ".html")>>)

Reverse(s) == [i \in 1..Len(s) |-> s[Len(s) + 1 - i]]

-----------------------------------------------------------------------------
(* the write_*_build functions *)

write_picosvg_builds_but_last(nw, files) ==
    nw \o [i \in 1..(Len(files) - 1) |->
              Build(<<picosvg_dest(files[i])>>, "picosvg", <<rel_build(files[i])>>)]
       \o << Newline >>

write_picosvg_builds(nw, files) ==
    nw \o [i \in 1..Len(files) |->
              Build(<<picosvg_dest(files[i])>>, "picosvg", <<rel_build(files[i])>>)]
       \o << Newline >>

write_codepointmap_build(nw, files) ==
    nw \o << Build(<<codepointmap_csv>>, "write_codepoints", [i \in 1..Len(files) |-> rel_build(files[i])]),
             Newline >>

write_fea_build(nw, files) ==
    nw \o << Build(<<features_fea>>, "write_fea", <<codepointmap_csv>>), Newline >>

write_font_build_reversed(nw, files) ==
    nw \o << Build(<<font_dest>>, "write_font",
                   <<codepointmap_csv, features_fea>> \o Reverse([i \in 1..Len(files) |-> picosvg_dest(files[i])])),
             Newline >>

write_font_build(nw, files) ==
    nw \o << Build(<<font_dest>>, "write_font",
                   <<codepointmap_csv, features_fea>> \o [i \in 1..Len(files) |-> picosvg_dest(files[i])]),
             Newline >>

write_svg_font_diff_build(nw, files) ==
    nw \o [i \in 1..Len(files) |->
              Build(<<resvg_png_dest(files[i])>>, "write_svg2png", <<rel_build(files[i])>>)]
       \o << Newline >>
       \o [i \in 1..Len(files) |->
              Build(<<skia_png_dest(files[i])>>, "write_font2png",
                    <<font_dest, rel_build(files[i])>>)]
       \o << Newline >>
       \o [i \in 1..Len(files) |->
              Build(<<diff_png_dest(files[i])>>, "write_pngdiff",
                    <<resvg_png_dest(files[i]), skia_png_dest(files[i])>>)]
       \o << Newline >>
       \o << Build(<<diffs_html>>, "write_diffreport", [i \in 1..Len(files) |-> diff_png_dest(files[i])]),
             Newline >>

-----------------------------------------------------------------------------
(* the command line *)

\* the SVG paths a command line may name
InputPaths ==
    { AbsP(<<Dir("a"), Dir("b"), Dir("c"), Name("x", ".svg")>>),     \* /a/b/c/x.svg
      AbsP(<<Dir("x"), Name("y", ".svg")>>),                         \* /x/y.svg
      RelP(<<Dir("s"), Name("x", ".svg")>>),                         \* s/x.svg
      RelP(<<Dir("b")>>),                                            \* b
      AbsP(<<Dir("a"), Dir("s"), Name("x", ".png")>>),               \* /a/s/x.png
      RelP(<<Dir("b"), Dir("picosvg"), Name("y", ".svg")>>) }        \* b/picosvg/y.svg

\* --build_dir: "b/" and "/o"
BuildDirs == { RelP(<<Dir("b"), Empty>>), AbsP(<<Dir("o")>>) }

\* --output_file: not given, or "out/f.ttf"
OutputFiles == { <<>>, << RelP(<<Dir("out"), Name("f", ".ttf")>>) >> }

FlagValues ==
    [ build_dir : BuildDirs,
      gen_ninja : BOOLEAN,
      gen_svg_font_diffs : BOOLEAN,
      svg_font_diff_resolution : {256},
      exec_ninja : BOOLEAN,
      output_file : OutputFiles,
      family : {"Test"},
      output : {"font"},
      color_format : {"glyf_colr_1"},
      upem : {"1024"},
      keep_glyph_names : {FALSE} ]

Parents(p) == { AbsP(SubSeq(p.comps, 1, k)) : k \in 0..Len(p.comps) }

Running == [kind |-> "running", status |-> 0, returncode |-> 0, msg |-> ""]

NoFile == [exists |-> FALSE, path |-> FILESYSTEM_ROOT_PATH, text |-> <<>>]

Init ==
    /\ argv \in UNION { [1..n -> InputPaths] : n \in 0..MaxFiles }
    /\ FLAGS \in FlagValues
    /\ cwd = AbsP(<<Dir("a")>>)
    /\ pc = "validate"
    /\ svg_files = <<>>
    /\ dirs = Parents(cwd)
    /\ ninja_file = NoFile
    /\ log = <<>>
    /\ ninja_calls = 0
    /\ ninja_rc = -1
    /\ exit = Running
    /\ run = 1
    /\ prev_file = NoFile

-----------------------------------------------------------------------------
(* _run, step by step *)

has_duplicate_paths(files) ==
    Cardinality({ files[i] : i \in 1..Len(files) }) # Len(files)

\* len(set(os.path.basename(f) for f in svg_files)) != len(svg_files)
has_duplicate_names(files) ==
    Cardinality({ basename(files[i]) : i \in 1..Len(files) }) # Len(files)

\* sys.exit(message): the message goes to stderr, the status is 1
SystemExitStatus == 1
\* an exception nothing catches ends the interpreter with status 1
UncaughtExceptionStatus == 1

Validate ==
    /\ pc = "validate"
    /\ LET files == [i \in 1..Len(argv) |-> abspath(argv[i])]
       IN  /\ svg_files' = files
           /\ IF has_duplicate_names(files)
              THEN /\ pc' = "exited"
                   /\ exit' = [kind |-> "SystemExit", status |-> SystemExitStatus,
                               returncode |-> 0,
                               msg |-> "Input svgs must have unique names"]
              ELSE /\ pc' = "makedirs"
                   /\ exit' = exit
    /\ UNCHANGED <<argv, FLAGS, cwd, dirs, ninja_file, log, ninja_calls, ninja_rc,
                   run, prev_file>>

diff_dirs ==
    { join(build_dir, RelP(<<Dir(d)>>)) : d \in {"resvg_png", "skia_png", "diff_png"} }

MakeDirs ==
    /\ pc = "makedirs"
    /\ dirs' = dirs \cup Parents(build_dir)
                    \cup (IF FLAGS.gen_svg_font_diffs THEN diff_dirs ELSE {})
    /\ log' = Append(log, "makedirs")
    /\ pc' = "gen_ninja"
    /\ UNCHANGED <<argv, FLAGS, cwd, svg_files, ninja_file, ninja_calls, ninja_rc,
                   exit, run, prev_file>>

build_file == resolve_rel_build(RelP(<<Name("build", ".ninja")>>))

open_append(text) == text

\* open(build_file, "w") empties the file
open_w(text) == <<>>

OpenBuildFile_unconditional ==
    /\ pc = "gen_ninja"
    /\ ninja_file' = [exists |-> TRUE, path |-> build_file,
                      text |-> open_w(ninja_file.text)]
    /\ log' = log \o <<"print Generating", "open">>
    /\ pc' = "write_preamble"
    /\ UNCHANGED <<argv, FLAGS, cwd, svg_files, dirs, ninja_calls, ninja_rc, exit,
                   run, prev_file>>

OpenBuildFile ==
    /\ pc = "gen_ninja"
    /\ FLAGS.gen_ninja
    /\ ninja_file' = [exists |-> TRUE, path |-> build_file,
                      text |-> open_w(ninja_file.text)]
    /\ log' = log \o <<"print Generating", "open">>
    /\ pc' = "write_preamble"
    /\ UNCHANGED <<argv, FLAGS, cwd, svg_files, dirs, ninja_calls, ninja_rc, exit,
                   run, prev_file>>

SkipGenNinja ==
    /\ pc = "gen_ninja"
    /\ ~FLAGS.gen_ninja
    /\ pc' = "ninja"
    /\ UNCHANGED <<argv, FLAGS, cwd, svg_files, dirs, ninja_file, log, ninja_calls,
                   ninja_rc, exit, run, prev_file>>

\* one call of _run's with-block: the writer's text grows, _run moves on
Write(at, text, next) ==
    /\ pc = at
    /\ ninja_file' = [ninja_file EXCEPT !.text = text]
    /\ pc' = next
    /\ UNCHANGED <<argv, FLAGS, cwd, svg_files, dirs, log, ninja_calls, ninja_rc,
                   exit, run, prev_file>>

WritePreamble ==
    Write("write_preamble", write_preamble(ninja_file.text), "write_picosvg_builds")

WritePicosvgBuilds ==
    Write("write_picosvg_builds", write_picosvg_builds(ninja_file.text, svg_files),
          "write_codepointmap_build")

WriteCodepointmapBuild ==
    Write("write_codepointmap_build",
          write_codepointmap_build(ninja_file.text, svg_files), "write_fea_build")

WriteFeaBuild ==
    Write("write_fea_build", write_fea_build(ninja_file.text, svg_files),
          "write_font_build")

WriteFontBuild ==
    Write("write_font_build", write_font_build(ninja_file.text, svg_files),
          IF FLAGS.gen_svg_font_diffs THEN "write_svg_font_diff_build" ELSE "close")

WriteSvgFontDiffBuild ==
    Write("write_svg_font_diff_build",
          write_svg_font_diff_build(ninja_file.text, svg_files), "close")

CloseBuildFile ==
    /\ pc = "close"
    /\ log' = Append(log, "close")
    /\ pc' = "ninja"
    /\ UNCHANGED <<argv, FLAGS, cwd, svg_files, dirs, ninja_file, ninja_calls,
                   ninja_rc, exit, run, prev_file>>

\* ["ninja", "-C", os.path.dirname(build_file)]
ninja_cmd == <<"ninja", "-C", dirname(build_file)>>

\* subprocess.run(ninja_cmd, check=False) would return whatever ninja's status
run_unchecked(rc) ==
    /\ pc' = "return"
    /\ exit' = exit

\* subprocess.run(ninja_cmd, check=True): CalledProcessError on a non-zero status
run_checked(rc) ==
    IF rc = 0
    THEN /\ pc' = "return"
         /\ exit' = exit
    ELSE /\ pc' = "exited"
         /\ exit' = [kind |-> "CalledProcessError", status |-> UncaughtExceptionStatus,
                     returncode |-> rc, msg |-> "Traceback"]

ExecNinja ==
    /\ pc = "ninja"
    /\ FLAGS.exec_ninja
    /\ log' = log \o <<"print ninja_cmd", "subprocess.run">>
    /\ ninja_calls' = ninja_calls + 1
    /\ \E rc \in 0..MaxStatus :
          /\ ninja_rc' = rc
          /\ run_checked(rc)
    /\ UNCHANGED <<argv, FLAGS, cwd, svg_files, dirs, ninja_file, run, prev_file>>

PrintNinjaCmd ==
    /\ pc = "ninja"
    /\ ~FLAGS.exec_ninja
    /\ log' = Append(log, "print To run")
    /\ pc' = "return"
    /\ UNCHANGED <<argv, FLAGS, cwd, svg_files, dirs, ninja_file, ninja_calls,
                   ninja_rc, exit, run, prev_file>>

\* _run returns None and app.run exits with status 0
Return ==
    /\ pc = "return"
    /\ pc' = "exited"
    /\ exit' = [kind |-> "returned", status |-> 0, returncode |-> 0, msg |-> ""]
    /\ UNCHANGED <<argv, FLAGS, cwd, svg_files, dirs, ninja_file, log, ninja_calls,
                   ninja_rc, run, prev_file>>

\* the same command line once more, in the filesystem the first run left
Rerun ==
    /\ pc = "exited"
    /\ run = 1
    /\ run' = 2
    /\ prev_file' = ninja_file
    /\ pc' = "validate"
    /\ svg_files' = <<>>
    /\ log' = <<>>
    /\ ninja_calls' = 0
    /\ ninja_rc' = -1
    /\ exit' = Running
    /\ UNCHANGED <<argv, FLAGS, cwd, dirs, ninja_file>>

Next ==
    \/ Validate
    \/ MakeDirs
    \/ OpenBuildFile
    \/ SkipGenNinja
    \/ WritePreamble
    \/ WritePicosvgBuilds
    \/ WriteCodepointmapBuild
    \/ WriteFeaBuild
    \/ WriteFontBuild
    \/ WriteSvgFontDiffBuild
    \/ CloseBuildFile
    \/ ExecNinja
    \/ PrintNinjaCmd
    \/ Return
    \/ Rerun

Spec == Init /\ [][Next]_vars

-----------------------------------------------------------------------------
(* What the properties speak about *)

N == Len(argv)
diff == FLAGS.gen_svg_font_diffs
text == ninja_file.text

\* the input files as absolute paths, whatever _run has done so far
Input(i) == abspath(argv[i])

\* pairwise-distinct basenames
UniqueNames ==
    \A i, j \in 1..N : i # j => basename(Input(i)) # basename(Input(j))

\* this run wrote build.ninja and closed it
Closed ==
    /\ FLAGS.gen_ninja
    /\ pc \in {"ninja", "return", "exited"}
    /\ exit.kind # "SystemExit"

\* this run passed validation and ran to its end (or to ninja's failure)
Finished == pc \in {"return", "exited"} /\ exit.kind # "SystemExit"

Edges == SelectSeq(text, LAMBDA s : s.kind = "build")
EdgesOf(rule) == SelectSeq(text, LAMBDA s : s.kind = "build" /\ s.name = rule)
RulesNamed(rule) == SelectSeq(text, LAMBDA s : s.kind = "rule" /\ s.name = rule)

DiffRuleNames == {"write_svg2png", "write_font2png", "write_pngdiff", "write_diffreport"}

\* the edges of the diff branch, told by where their output goes
IsDiffEdge(e) ==
    \/ e.outs[1] = diffs_html
    \/ /\ Len(e.outs[1].comps) = 2
       /\ e.outs[1].comps[1] \in {Dir("resvg_png"), Dir("skia_png"), Dir("diff_png")}

\* the first place of an event in the log, 0 when it is not there
Idx(ev) ==
    IF \E k \in 1..Len(log) : log[k] = ev
    THEN CHOOSE k \in 1..Len(log) : log[k] = ev /\ \A m \in 1..(k - 1) : log[m] # ev
    ELSE 0

Count(ev) == Cardinality({ k \in 1..Len(log) : log[k] = ev })

-----------------------------------------------------------------------------
(* C1 *)

EdgeCountAsClaimed == N + 3 + 1 + (IF diff THEN 4 * N + 1 ELSE 0)
EdgeCountOfCode == N + 3 + (IF diff THEN 3 * N + 1 ELSE 0)

\* C1 (as stated): with pairwise-distinct basenames the run passes validation
\* and the description holds N + 3 + 1 edges, and 4N + 1 more with diffs.
C1_EdgeCountAsClaimed ==
    UniqueNames =>
        /\ exit.kind # "SystemExit"
        /\ Closed => Len(Edges) = EdgeCountAsClaimed

\* C1 (amended): with pairwise-distinct basenames the run passes validation
\* and the description holds N normalize edges and 3 singleton edges
\* (codepoints, features, font), N + 3 in all; with diffs it holds 3N + 1
\* more (N rasterize-source, N rasterize-font, N diff-images, 1 report).
C1_EdgeCount ==
    UniqueNames =>
        /\ exit.kind # "SystemExit"
        /\ Closed =>
             /\ Len(Edges) = EdgeCountOfCode
             /\ Len(EdgesOf("picosvg")) = N
             /\ Len(EdgesOf("write_codepoints")) = 1
             /\ Len(EdgesOf("write_fea")) = 1
             /\ Len(EdgesOf("write_font")) = 1
             /\ diff => /\ Len(EdgesOf("write_svg2png")) = N
                        /\ Len(EdgesOf("write_font2png")) = N
                        /\ Len(EdgesOf("write_pngdiff")) = N
                        /\ Len(EdgesOf("write_diffreport")) = 1

C1_Witness ==
    /\ UniqueNames /\ Closed /\ diff /\ N = 2
    /\ Len(Edges) = 12

-----------------------------------------------------------------------------
(* C2 *)

\* C2: when two inputs share a basename the run ends in SystemExit with a
\* message and a non-zero status, and has done nothing: no directory made,
\* no build.ninja, no statement written, ninja not started, whatever the flags.
C2_DuplicateNamesAbort ==
    ~UniqueNames =>
        /\ dirs = Parents(cwd)
        /\ ~ninja_file.exists
        /\ text = <<>>
        /\ ninja_calls = 0
        /\ log = <<>>
        /\ pc # "validate" =>
             /\ pc = "exited"
             /\ exit.kind = "SystemExit"
             /\ exit.status # 0
             /\ exit.msg # ""

C2_Witness ==
    /\ N = 2 /\ argv[1] # argv[2] /\ dirname(Input(1)) # dirname(Input(2))
    /\ basename(Input(1)) = basename(Input(2))
    /\ FLAGS.gen_ninja /\ FLAGS.exec_ninja /\ diff
    /\ pc = "exited" /\ exit.kind = "SystemExit"

-----------------------------------------------------------------------------
(* C3 *)

EdgeIds == 1..Len(Edges)
OutsOf(k) == { Edges[k].outs[m] : m \in 1..Len(Edges[k].outs) }
InsOf(k) == { Edges[k].ins[m] : m \in 1..Len(Edges[k].ins) }
Producers(p) == { k \in EdgeIds : p \in OutsOf(k) }
InputFileRefs == { rel_build(argv[i]) : i \in 1..N }

\* edge k reads what edge j makes
DependsOn(k, j) == InsOf(k) \cap OutsOf(j) # {}

RECURSIVE Upstream(_, _)
\* every edge the edges in S depend on, directly or not (at most n rounds)
Upstream(S, n) ==
    LET more == S \cup { j \in EdgeIds : \E k \in S : DependsOn(k, j) }
    IN  IF n = 0 \/ more = S THEN S ELSE Upstream(more, n - 1)

Acyclic ==
    \A k \in EdgeIds :
        k \notin Upstream({ j \in EdgeIds : DependsOn(k, j) }, Len(Edges))

\* C3: with pairwise-distinct basenames, every input of an edge is an input
\* file or the output of exactly one other edge, no output has two
\* producers, and no edge depends on itself.
C3_GraphWellFormed ==
    (UniqueNames /\ Closed) =>
        /\ \A k \in EdgeIds : \A p \in InsOf(k) :
              \/ p \in InputFileRefs /\ Producers(p) = {}
              \/ Cardinality(Producers(p) \ {k}) = 1 /\ k \notin Producers(p)
        /\ \A k \in EdgeIds : \A p \in OutsOf(k) : Producers(p) = {k}
        /\ Acyclic

-----------------------------------------------------------------------------
(* C4 *)

\* C4: the fan-in edges list their entries in argument order: the codepoints
\* edge reads the N inputs in order, the font edge reads codepointmap.csv,
\* features.fea and then the N normalize outputs in order (2 + N inputs), and
\* the report edge reads the N diff images in order.
C4_FanInOrder ==
    (UniqueNames /\ Closed) =>
        /\ Len(EdgesOf("picosvg")) = N
        /\ \A i \in 1..N :
              LET e == EdgesOf("picosvg")[i]
              IN  /\ Len(e.ins) = 1
                  /\ resolve_rel_build(e.ins[1]) = Input(i)
                  /\ e.outs = << RelP(<<Dir("picosvg"), basename(Input(i))>>) >>
        /\ Len(EdgesOf("write_codepoints")) = 1
        /\ LET ins == EdgesOf("write_codepoints")[1].ins
           IN  /\ Len(ins) = N
               /\ \A i \in 1..N : resolve_rel_build(ins[i]) = Input(i)
        /\ Len(EdgesOf("write_font")) = 1
        /\ LET ins == EdgesOf("write_font")[1].ins
           IN  /\ Len(ins) = 2 + N
               /\ ins[1] = codepointmap_csv
               /\ ins[2] = features_fea
               /\ \A i \in 1..N : << ins[2 + i] >> = EdgesOf("picosvg")[i].outs
        /\ diff =>
             /\ Len(EdgesOf("write_pngdiff")) = N
             /\ Len(EdgesOf("write_svg2png")) = N
             /\ Len(EdgesOf("write_diffreport")) = 1
             /\ LET ins == EdgesOf("write_diffreport")[1].ins
                IN  /\ Len(ins) = N
                    /\ \A i \in 1..N :
                          /\ << ins[i] >> = EdgesOf("write_pngdiff")[i].outs
                          /\ EdgesOf("write_pngdiff")[i].ins[1]
                                = EdgesOf("write_svg2png")[i].outs[1]
                          /\ resolve_rel_build(EdgesOf("write_svg2png")[i].ins[1])
                                = Input(i)

C4_Witness ==
    /\ UniqueNames /\ Closed /\ diff /\ N = 2
    /\ EdgesOf("write_font")[1].ins[3] # EdgesOf("write_font")[1].ins[4]
    /\ EdgesOf("write_font")[1].ins[4].comps[2] = basename(Input(2))

-----------------------------------------------------------------------------
(* C5, C10 *)

\* the normalize edges are in the description: edge i reads rel_build(input i)
Relativized == text # <<>> /\ Len(EdgesOf("picosvg")) = N /\ N > 0
Rel(i) == EdgesOf("picosvg")[i].ins[1]

\* the two absolute paths have no leading component in common
OnlyRootInCommon(p, q) ==
    p.comps = <<>> \/ q.comps = <<>> \/ p.comps[1] # q.comps[1]

\* r is made of ".." steps out of the build root, then plain names
UpThenDown(r) ==
    \A k \in 1..Len(r.comps) :
        /\ r.comps[k] # Empty
        /\ r.comps[k] = DotDot => \A m \in 1..k : r.comps[m] = DotDot

ExampleRoot == AbsP(<<Dir("a"), Dir("b")>>)
ExampleInside == AbsP(<<Dir("a"), Dir("b"), Dir("c"), Name("x", ".svg")>>)
ExampleOutside == AbsP(<<Dir("x"), Name("y", ".svg")>>)

\* C5: rel_build gives the absolute path when the path and the build root
\* have only the filesystem root in common, and otherwise the path relative
\* to the build root; /a/b/c/x.svg under /a/b is c/x.svg, /x/y.svg is /x/y.svg.
C5_RelBuild ==
    Relativized =>
        \A i \in 1..N :
            /\ IF OnlyRootInCommon(Input(i), build_dir)
               THEN Rel(i) = Input(i)
               ELSE /\ ~isabs(Rel(i))
                    /\ UpThenDown(Rel(i))
                    /\ resolve_rel_build(Rel(i)) = Input(i)
            /\ (build_dir = ExampleRoot /\ Input(i) = ExampleInside)
                   => Rel(i) = RelP(<<Dir("c"), Name("x", ".svg")>>)
            /\ (build_dir = ExampleRoot /\ Input(i) = ExampleOutside)
                   => Rel(i) = ExampleOutside

C5_Witness ==
    /\ Relativized /\ N = 2 /\ build_dir = ExampleRoot
    /\ Input(1) = ExampleInside /\ Rel(1) = RelP(<<Dir("c"), Name("x", ".svg")>>)
    /\ Input(2) = ExampleOutside /\ Rel(2) = ExampleOutside

\* C10 (as stated): for a path identical to the build root rel_build gives
\* the empty string.
C10_EmptyForBuildRoot ==
    Relativized =>
        \A i \in 1..N : Input(i) = build_dir => Rel(i) = RelP(<<>>)

\* C10 (amended): for a path identical to the build root (a build root
\* other than the filesystem root) rel_build gives ".", not the empty string.
C10_DotForBuildRoot ==
    Relativized =>
        \A i \in 1..N :
            (Input(i) = build_dir /\ build_dir # FILESYSTEM_ROOT_PATH)
                => Rel(i) = RelP(<<Dot>>)

C10_Witness ==
    /\ Relativized
    /\ \E i \in 1..N : Input(i) = build_dir /\ Rel(i) = RelP(<<Dot>>)

-----------------------------------------------------------------------------
(* C6 *)

\* the rule of statement k was declared by an earlier statement
DeclaredBefore(k) ==
    \E m \in 1..(k - 1) : text[m].kind = "rule" /\ text[m].name = text[k].name

\* C6: without diffs no diff rule and no edge of a diff rule is ever written;
\* with diffs each of the four rules is declared exactly once and each of
\* the 3N + 1 diff-branch edges names one of them; no edge names a rule that
\* was not declared before it.
C6_DiffBranch ==
    /\ ~diff =>
         \A k \in 1..Len(text) :
             /\ text[k].kind \in {"rule", "build"} => text[k].name \notin DiffRuleNames
             /\ text[k].kind = "build" => ~IsDiffEdge(text[k])
    /\ (diff /\ Closed) =>
         /\ \A r \in DiffRuleNames : Len(RulesNamed(r)) = 1
         /\ Len(SelectSeq(Edges, IsDiffEdge)) = 3 * N + 1
         /\ \A k \in EdgeIds :
               IsDiffEdge(Edges[k]) <=> Edges[k].name \in DiffRuleNames
    /\ \A k \in 1..Len(text) : text[k].kind = "build" => DeclaredBefore(k)

C6_Witness ==
    /\ ~diff /\ Closed /\ N = 2 /\ UniqueNames
    /\ Len(Edges) = 5

-----------------------------------------------------------------------------
(* C7 *)

\* C7: a run that passes validation makes the directories, then writes the
\* description, then starts ninja; the description is written exactly when
\* gen_ninja is set, ninja is started exactly when exec_ninja is set (else
\* the command is printed), and never before the description is closed.
C7_DriverOrder ==
    /\ Idx("makedirs") # 0 =>
         /\ build_dir \in dirs
         /\ diff => diff_dirs \subseteq dirs
    /\ Idx("open") # 0 => (0 < Idx("makedirs") /\ Idx("makedirs") < Idx("open"))
    /\ Idx("close") # 0 => (0 < Idx("open") /\ Idx("open") < Idx("close"))
    /\ (text # <<>> /\ run = 1) => Idx("open") # 0
    /\ Idx("subprocess.run") # 0 =>
         /\ 0 < Idx("makedirs") /\ Idx("makedirs") < Idx("subprocess.run")
         /\ Idx("open") # 0 =>
              (0 < Idx("close") /\ Idx("close") < Idx("subprocess.run"))
    /\ Finished =>
         /\ Idx("makedirs") # 0
         /\ Idx("open") # 0 <=> FLAGS.gen_ninja
         /\ Idx("close") # 0 <=> FLAGS.gen_ninja
         /\ Idx("subprocess.run") # 0 <=> FLAGS.exec_ninja
         /\ Idx("print To run") # 0 <=> ~FLAGS.exec_ninja
         /\ FLAGS.gen_ninja => ninja_file.exists /\ text # <<>>

C7_Witness ==
    /\ pc = "exited" /\ exit.kind = "returned" /\ diff
    /\ log = <<"makedirs", "print Generating", "open", "close",
               "print ninja_cmd", "subprocess.run">>

-----------------------------------------------------------------------------
(* C8 *)

NinjaFailed == Idx("subprocess.run") # 0 /\ ninja_rc # 0

\* C8 (as stated): when ninja returns a non-zero status the run ends in an
\* error whose exit status is ninja's status; ninja is started at most once
\* and build.ninja stays.
C8_StatusPropagated ==
    /\ ninja_calls <= 1
    /\ NinjaFailed =>
         /\ pc = "exited"
         /\ exit.kind = "CalledProcessError"
         /\ exit.status = ninja_rc
         /\ FLAGS.gen_ninja => ninja_file.exists /\ text # <<>>

\* C8 (amended): when ninja returns a non-zero status the run ends in an
\* uncaught CalledProcessError that records ninja's status, and the process
\* exits with status 1 whatever that status was; ninja is started at most
\* once and build.ninja stays as written.
C8_FailurePropagated ==
    /\ [](/\ ninja_calls <= 1
          /\ Count("subprocess.run") = ninja_calls
          /\ NinjaFailed =>
               /\ pc = "exited"
               /\ exit.kind = "CalledProcessError"
               /\ exit.returncode = ninja_rc
               /\ exit.status = 1
               /\ FLAGS.gen_ninja => ninja_file.exists /\ text # <<>>)
    /\ [][pc = "ninja" => ninja_file' = ninja_file]_vars

C8_Witness ==
    /\ exit.kind = "CalledProcessError" /\ ninja_rc = 2 /\ exit.status = 1
    /\ FLAGS.gen_ninja /\ ninja_file.exists /\ N = 2

-----------------------------------------------------------------------------
(* C9 *)

\* C9: the same command line run again writes the same description,
\* statement for statement, and wherever a destination is computed again
\* (the font edge's inputs, the diff edges' inputs, the report's inputs) it
\* is the path computed before.
C9_Deterministic ==
    /\ (run = 2 /\ Closed) => ninja_file = prev_file
    /\ (UniqueNames /\ Closed) =>
         /\ \A i \in 1..N :
               EdgesOf("write_font")[1].ins[2 + i] = EdgesOf("picosvg")[i].outs[1]
         /\ diff =>
              \A i \in 1..N :
                  /\ EdgesOf("write_pngdiff")[i].ins
                        = << EdgesOf("write_svg2png")[i].outs[1],
                             EdgesOf("write_font2png")[i].outs[1] >>
                  /\ EdgesOf("write_diffreport")[1].ins[i]
                        = EdgesOf("write_pngdiff")[i].outs[1]
                  /\ EdgesOf("write_font2png")[i].ins[1]
                        = EdgesOf("write_font")[1].outs[1]

C9_Witness ==
    /\ run = 2 /\ Closed /\ diff /\ N = 2 /\ UniqueNames
    /\ prev_file.exists /\ ninja_file = prev_file /\ Len(text) > 12

====
